---- MODULE Spec2Model ----
(***************************************************************************)
(* Credit risk API with monitoring: the recommendation rule of the         *)
(* /predict handler (src/src/api_with_monitoring.py, src/src/api.py) and   *)
(* the in-memory monitor CreditRiskMonitor (src/src/monitoring.py).        *)
(*                                                                         *)
(* Latencies are integers in tenths of a second (12 is 1.2 s), timestamps  *)
(* integers in seconds.  The fields of a prediction log that the monitor   *)
(* never reads back (timestamp, request, the two probabilities) are not    *)
(* carried in the records.                                                 *)
(***************************************************************************)
EXTENDS Integers, Sequences, FiniteSets, TLC

VARIABLES
    metrics,         \* self.metrics: the six lists of CreditRiskMonitor
    now,             \* datetime.now(), in seconds since the monitor was built
    lastCall,        \* the monitor method called last ("none": none since time moved)
    result,          \* whether that call raised, and the value it returned
    alerts,          \* the warnings _check_alerts logged during that call
    local,           \* the local model's result of the request being decided
    remote,          \* the remote model's result of the request being decided
    recommendation,  \* the recommendation computed for that request
    response,        \* the text the remote model answered to classify_credit_risk
    req,             \* the HTTP request each client has in flight
    pc,              \* where the handler of each request stands
    running,         \* the handler the event loop is executing, or "none"
    observed,        \* the metrics as the handler of /metrics or /health last read them
    summaries,       \* the last two summaries watched since the metrics last changed
    errorCalls       \* the number of log_error calls made so far

monitorVars == <<metrics, now, lastCall, result, alerts>>
decideVars == <<local, remote, recommendation, response>>
loopVars == <<req, pc, running, observed>>
historyVars == <<summaries, errorCalls>>
vars == <<metrics, now, lastCall, result, alerts, local, remote, recommendation,
          req, pc, running, observed, summaries, errorCalls, response>>

----------------------------------------------------------------------------
(* Bounds of the model *)

MaxPredictions == 2
MaxErrors == 6
MaxWindowPredictions == 11
MaxBurstPredictions == 10

(* Program constants *)

WindowSize == 10
LowAgreementPercent == 70
HighLatencySeconds == 5
MaxRecentErrors == 5
HourSeconds == 3600
DaySeconds == 86400

(* Inputs *)

MlLabels == {"good", "bad"}
BedrockLabels == {"good", "bad", "unknown"}
Latencies == {12, 60}
ErrorTypes == {"PREDICTION_ERROR"}
ClockPoints == {0, HourSeconds, DaySeconds + 1800}
Labels == {"good", "bad", "unknown", "error"}
Confidences == {0, 60, 90}
Clients == {"c1", "c2"}

\* What a response text of the remote model is to the parser: whether a JSON
\* object is found between the first "{" and the last "}" ("absent": no such
\* pair; "invalid": json.loads raises), the keys of the object, its prediction
\* and confidence, and whether the lowercased text holds "good" and "bad".
JsonPredictions == {"good", "bad", "GOOD", "BAD", "high risk"}
Lower(s) == CASE s = "GOOD" -> "good" [] s = "BAD" -> "bad" [] OTHER -> s
NoResponse ==
    [json |-> "none", fields |-> {}, prediction |-> "none", confidence |-> 0,
     good |-> FALSE, bad |-> FALSE]
ResponseTexts ==
    {r \in [json : {"absent", "invalid", "object"},
            fields : SUBSET {"prediction", "confidence", "reasoning"},
            prediction : JsonPredictions \cup {"none"},
            confidence : Confidences,
            good : BOOLEAN, bad : BOOLEAN] :
        /\ r.json # "object" => r.fields = {}
        /\ ("prediction" \in r.fields) = (r.prediction # "none")
        /\ "confidence" \notin r.fields => r.confidence = 0
        /\ Lower(r.prediction) = "good" => r.good
        /\ Lower(r.prediction) = "bad" => r.bad}

----------------------------------------------------------------------------
(* Helpers: Python's sum(), list.count() and the slice [-n:] *)

RECURSIVE SumSeq(_)
SumSeq(s) == IF s = <<>> THEN 0 ELSE Head(s) + SumSeq(Tail(s))

BoolInt(b) == IF b THEN 1 ELSE 0

SumBools(s) == SumSeq([i \in 1..Len(s) |-> BoolInt(s[i])])

Count(s, x) == Cardinality({i \in 1..Len(s) : s[i] = x})

LastN(s, n) == IF Len(s) <= n THEN s ELSE SubSeq(s, Len(s) - n + 1, Len(s))

----------------------------------------------------------------------------
(* The recommendation rule of /predict *)

\* The recommendation is the string decision + " - " + rationale; the two parts
\* are kept apart.
Reject == [decision |-> "RECHAZAR", rationale |-> "Ambos modelos predicen alto riesgo"]
Approve == [decision |-> "APROBAR", rationale |-> "Ambos modelos predicen bajo riesgo"]
ManualReview == [decision |-> "REVISAR MANUALMENTE", rationale |-> "Modelos discrepan"]

\* A slip that lets the request through unless the remote model says bad.
DecideLenient(ml_pred, bedrock_result) ==
    IF ml_pred = "bad" /\ bedrock_result.prediction = "bad" THEN Reject
    ELSE IF ml_pred = "good" /\ bedrock_result.prediction # "bad" THEN Approve
    ELSE ManualReview

\* A slip that swaps the two agreement branches.
DecideSwapped(ml_pred, bedrock_result) ==
    IF ml_pred = "bad" /\ bedrock_result.prediction = "bad" THEN Approve
    ELSE IF ml_pred = "good" /\ bedrock_result.prediction = "good" THEN Reject
    ELSE ManualReview

\* A slip that rejects as soon as the remote model does not say good.
DecideStrict(ml_pred, bedrock_result) ==
    IF ml_pred = "bad" /\ bedrock_result.prediction # "good" THEN Reject
    ELSE IF ml_pred = "good" /\ bedrock_result.prediction = "good" THEN Approve
    ELSE ManualReview

Decide(ml_pred, bedrock_result) ==
    IF ml_pred = "bad" /\ bedrock_result.prediction = "bad" THEN Reject
    ELSE IF ml_pred = "good" /\ bedrock_result.prediction = "good" THEN Approve
    ELSE ManualReview

----------------------------------------------------------------------------
(* CreditRiskMonitor *)

EmptyMetrics ==
    [predictions |-> <<>>, response_times |-> <<>>, ml_predictions |-> <<>>,
     bedrock_predictions |-> <<>>, agreements |-> <<>>, errors |-> <<>>]

PredictionLog(ml_result, bedrock_result, response_time) ==
    [ml_prediction |-> ml_result, bedrock_prediction |-> bedrock_result,
     agreement |-> (ml_result = bedrock_result), response_time |-> response_time]

AppendPrediction(m, ml_result, bedrock_result, response_time) ==
    [m EXCEPT
        !.predictions = Append(@, PredictionLog(ml_result, bedrock_result, response_time)),
        !.response_times = Append(@, response_time),
        !.ml_predictions = Append(@, ml_result),
        !.bedrock_predictions = Append(@, bedrock_result),
        !.agreements = Append(@, ml_result = bedrock_result)]

ErrorLog(error_type, t) == [timestamp |-> t, error_type |-> error_type]

\* A slip that keeps only the latest errors, dropping the oldest.
AppendErrorCapped(m, error_type, t) ==
    [m EXCEPT !.errors = LastN(Append(@, ErrorLog(error_type, t)), MaxRecentErrors)]

AppendError(m, error_type, t) ==
    [m EXCEPT !.errors = Append(@, ErrorLog(error_type, t))]

\* (datetime.now() - datetime.fromisoformat(e['timestamp'])).seconds: the seconds
\* field of the timedelta, the days field left out.
DeltaSeconds(t, timestamp) == (t - timestamp) % DaySeconds

RecentErrors(m, t) ==
    Cardinality({i \in 1..Len(m.errors) :
                    DeltaSeconds(t, m.errors[i].timestamp) < HourSeconds})

\* A slip that drops the gate of ten predictions.
check_alerts_ungated(m, t) ==
    LET recent == LastN(m.predictions, WindowSize)
        recent_agreements == [i \in 1..Len(recent) |-> recent[i].agreement]
        recent_times == [i \in 1..Len(recent) |-> recent[i].response_time]
    IN  (IF SumBools(recent_agreements) * 100
               < LowAgreementPercent * Len(recent_agreements)
         THEN {"low_agreement"} ELSE {})
        \cup
        (IF SumSeq(recent_times) > HighLatencySeconds * 10 * Len(recent_times)
         THEN {"high_latency"} ELSE {})
        \cup
        (IF RecentErrors(m, t) > MaxRecentErrors
         THEN {"many_errors"} ELSE {})

\* A slip that compares the mean latency with >= instead of >.
check_alerts_inclusive(m, t) ==
    IF Len(m.predictions) < WindowSize THEN {}
    ELSE LET recent == LastN(m.predictions, WindowSize)
             recent_agreements == [i \in 1..Len(recent) |-> recent[i].agreement]
             recent_times == [i \in 1..Len(recent) |-> recent[i].response_time]
         IN  (IF SumBools(recent_agreements) * 100
                    < LowAgreementPercent * Len(recent_agreements)
              THEN {"low_agreement"} ELSE {})
             \cup
             (IF SumSeq(recent_times) >= HighLatencySeconds * 10 * Len(recent_times)
              THEN {"high_latency"} ELSE {})
             \cup
             (IF RecentErrors(m, t) > MaxRecentErrors
              THEN {"many_errors"} ELSE {})

\* A slip that chains the three checks with elif: the first that fires hides
\* the others.
check_alerts_elif(m, t) ==
    IF Len(m.predictions) < WindowSize THEN {}
    ELSE LET recent == LastN(m.predictions, WindowSize)
             recent_agreements == [i \in 1..Len(recent) |-> recent[i].agreement]
             recent_times == [i \in 1..Len(recent) |-> recent[i].response_time]
         IN  IF SumBools(recent_agreements) * 100
                    < LowAgreementPercent * Len(recent_agreements)
             THEN {"low_agreement"}
             ELSE IF SumSeq(recent_times) > HighLatencySeconds * 10 * Len(recent_times)
             THEN {"high_latency"}
             ELSE IF RecentErrors(m, t) > MaxRecentErrors
             THEN {"many_errors"}
             ELSE {}

check_alerts(m, t) ==
    IF Len(m.predictions) < WindowSize THEN {}
    ELSE LET recent == LastN(m.predictions, WindowSize)
             recent_agreements == [i \in 1..Len(recent) |-> recent[i].agreement]
             recent_times == [i \in 1..Len(recent) |-> recent[i].response_time]
         IN  (IF SumBools(recent_agreements) * 100
                    < LowAgreementPercent * Len(recent_agreements)
              THEN {"low_agreement"} ELSE {})
             \cup
             (IF SumSeq(recent_times) > HighLatencySeconds * 10 * Len(recent_times)
              THEN {"high_latency"} ELSE {})
             \cup
             (IF RecentErrors(m, t) > MaxRecentErrors
              THEN {"many_errors"} ELSE {})

\* A slip that tests the agreement before the errors.
get_system_status_agreement_first(m, t) ==
    IF m.predictions = <<>> THEN "INICIANDO"
    ELSE LET recent_agreements == LastN(m.agreements, WindowSize)
             recent_times == LastN(m.response_times, WindowSize)
             recent_errors == RecentErrors(m, t)
         IN  IF Len(recent_agreements) > 0
                 /\ SumBools(recent_agreements) * 100
                        < LowAgreementPercent * Len(recent_agreements)
             THEN "ADVERTENCIA"
             ELSE IF recent_errors > MaxRecentErrors THEN "CRITICO"
             ELSE IF Len(recent_times) > 0
                     /\ SumSeq(recent_times)
                            > HighLatencySeconds * 10 * Len(recent_times)
                  THEN "DEGRADADO"
             ELSE "SALUDABLE"

\* A variant that takes the age of an error from total_seconds(), days included,
\* while _check_alerts keeps the seconds field.
get_system_status_total_seconds(m, t) ==
    IF m.predictions = <<>> THEN "INICIANDO"
    ELSE LET recent_agreements == LastN(m.agreements, WindowSize)
             recent_times == LastN(m.response_times, WindowSize)
             recent_errors ==
                 Cardinality({i \in 1..Len(m.errors) :
                                 t - m.errors[i].timestamp < HourSeconds})
         IN  IF recent_errors > MaxRecentErrors THEN "CRITICO"
             ELSE IF Len(recent_agreements) > 0
                     /\ SumBools(recent_agreements) * 100
                            < LowAgreementPercent * Len(recent_agreements)
                  THEN "ADVERTENCIA"
             ELSE IF Len(recent_times) > 0
                     /\ SumSeq(recent_times)
                            > HighLatencySeconds * 10 * Len(recent_times)
                  THEN "DEGRADADO"
             ELSE "SALUDABLE"

\* The status strings are the code's, "CRITICO" written without its accent.
get_system_status(m, t) ==
    IF m.predictions = <<>> THEN "INICIANDO"
    ELSE LET recent_agreements == LastN(m.agreements, WindowSize)
             recent_times == LastN(m.response_times, WindowSize)
             recent_errors == RecentErrors(m, t)
         IN  IF recent_errors > MaxRecentErrors THEN "CRITICO"
             ELSE IF Len(recent_agreements) > 0
                     /\ SumBools(recent_agreements) * 100
                            < LowAgreementPercent * Len(recent_agreements)
                  THEN "ADVERTENCIA"
             ELSE IF Len(recent_times) > 0
                     /\ SumSeq(recent_times)
                            > HighLatencySeconds * 10 * Len(recent_times)
                  THEN "DEGRADADO"
             ELSE "SALUDABLE"

\* A slip that derives the status with the clock as it stood at construction.
get_metrics_summary_stale(m, t) ==
    IF m.predictions = <<>> THEN [message |-> "No hay datos de predicciones"]
    ELSE [total_predictions |-> Len(m.predictions),
          agreement_rate |-> <<SumBools(m.agreements) * 100, Len(m.predictions)>>,
          avg_response_time |-> <<SumSeq(m.response_times), Len(m.response_times)>>,
          ml_distribution |-> [good |-> Count(m.ml_predictions, "good"),
                               bad |-> Count(m.ml_predictions, "bad")],
          bedrock_distribution |-> [good |-> Count(m.bedrock_predictions, "good"),
                                    bad |-> Count(m.bedrock_predictions, "bad")],
          total_errors |-> Len(m.errors),
          recent_predictions |-> LastN(m.predictions, WindowSize),
          status |-> get_system_status(m, 0)]

\* A slip that reports the errors of the last hour as the total.
get_metrics_summary_recent_errors(m, t) ==
    IF m.predictions = <<>> THEN [message |-> "No hay datos de predicciones"]
    ELSE [total_predictions |-> Len(m.predictions),
          agreement_rate |-> <<SumBools(m.agreements) * 100, Len(m.predictions)>>,
          avg_response_time |-> <<SumSeq(m.response_times), Len(m.response_times)>>,
          ml_distribution |-> [good |-> Count(m.ml_predictions, "good"),
                               bad |-> Count(m.ml_predictions, "bad")],
          bedrock_distribution |-> [good |-> Count(m.bedrock_predictions, "good"),
                                    bad |-> Count(m.bedrock_predictions, "bad")],
          total_errors |-> RecentErrors(m, t),
          recent_predictions |-> LastN(m.predictions, WindowSize),
          status |-> get_system_status(m, t)]

\* A variant whose rate and mean cover the last ten predictions only.
get_metrics_summary_windowed(m, t) ==
    IF m.predictions = <<>> THEN [message |-> "No hay datos de predicciones"]
    ELSE [total_predictions |-> Len(m.predictions),
          agreement_rate |-> <<SumBools(LastN(m.agreements, WindowSize)) * 100,
                             Len(LastN(m.predictions, WindowSize))>>,
          avg_response_time |-> <<SumSeq(LastN(m.response_times, WindowSize)),
                                Len(LastN(m.response_times, WindowSize))>>,
          ml_distribution |-> [good |-> Count(m.ml_predictions, "good"),
                               bad |-> Count(m.ml_predictions, "bad")],
          bedrock_distribution |-> [good |-> Count(m.bedrock_predictions, "good"),
                                    bad |-> Count(m.bedrock_predictions, "bad")],
          total_errors |-> Len(m.errors),
          recent_predictions |-> LastN(m.predictions, WindowSize),
          status |-> get_system_status(m, t)]

\* Rates and means are kept as a numerator and a denominator.
get_metrics_summary(m, t) ==
    IF m.predictions = <<>> THEN [message |-> "No hay datos de predicciones"]
    ELSE [total_predictions |-> Len(m.predictions),
          agreement_rate |-> <<SumBools(m.agreements) * 100, Len(m.predictions)>>,
          avg_response_time |-> <<SumSeq(m.response_times), Len(m.response_times)>>,
          ml_distribution |-> [good |-> Count(m.ml_predictions, "good"),
                               bad |-> Count(m.ml_predictions, "bad")],
          bedrock_distribution |-> [good |-> Count(m.bedrock_predictions, "good"),
                                    bad |-> Count(m.bedrock_predictions, "bad")],
          total_errors |-> Len(m.errors),
          recent_predictions |-> LastN(m.predictions, WindowSize),
          status |-> get_system_status(m, t)]

----------------------------------------------------------------------------
(* The monitor's methods, called one after the other *)

NoResult == [prediction |-> "none", confidence |-> 0]
NoRecommendation == [decision |-> "none", rationale |-> "none"]
NoRequest ==
    [kind |-> "none", ml_pred |-> "none", bedrock |-> NoResult, response_time |-> 0,
     recommendation |-> NoRecommendation]
Returned(v) == [raised |-> FALSE, value |-> v]
Raised == [raised |-> TRUE, value |-> "None"]

Init ==
    /\ metrics = EmptyMetrics
    /\ now = 0
    /\ lastCall = "none"
    /\ result = Returned("None")
    /\ alerts = {}
    /\ local = NoResult
    /\ remote = NoResult
    /\ recommendation = NoRecommendation
    /\ response = NoResponse
    /\ req = [c \in Clients |-> NoRequest]
    /\ pc = [c \in Clients |-> "idle"]
    /\ running = "none"
    /\ observed = EmptyMetrics
    /\ summaries = <<>>
    /\ errorCalls = 0

\* A slip that appends the agreement after the log is saved, so that a failing
\* save leaves the agreements one short.
log_prediction_late_append(ml_result, bedrock_result, response_time, save_fails) ==
    /\ metrics' = IF save_fails
                  THEN [AppendPrediction(metrics, ml_result, bedrock_result, response_time)
                            EXCEPT !.agreements = metrics.agreements]
                  ELSE AppendPrediction(metrics, ml_result, bedrock_result, response_time)
    /\ lastCall' = "log_prediction"
    /\ IF save_fails
       THEN result' = Raised /\ alerts' = {}
       ELSE result' = Returned("None") /\ alerts' = check_alerts(metrics', now)
    /\ summaries' = <<>>
    /\ UNCHANGED <<now, errorCalls, decideVars, loopVars>>

\* save_fails: the write of predictions.jsonl (or the formatting of the log line)
\* raises, which happens after the five appends and before _check_alerts.
log_prediction(ml_result, bedrock_result, response_time, save_fails) ==
    /\ metrics' = AppendPrediction(metrics, ml_result, bedrock_result, response_time)
    /\ lastCall' = "log_prediction"
    /\ IF save_fails
       THEN result' = Raised /\ alerts' = {}
       ELSE result' = Returned("None") /\ alerts' = check_alerts(metrics', now)
    /\ summaries' = <<>>
    /\ UNCHANGED <<now, errorCalls, decideVars, loopVars>>

\* save_fails: the write of errors.jsonl raises, after the append.
log_error(error_type, save_fails) ==
    /\ metrics' = AppendError(metrics, error_type, now)
    /\ lastCall' = "log_error"
    /\ result' = IF save_fails THEN Raised ELSE Returned("None")
    /\ alerts' = {}
    /\ summaries' = <<>>
    /\ errorCalls' = errorCalls + 1
    /\ UNCHANGED <<now, decideVars, loopVars>>

\* A slip that drops the errors older than an hour while the summary is built.
MetricsSummaryPruning ==
    /\ lastCall' = "get_metrics_summary"
    /\ result' = Returned(get_metrics_summary(metrics, now))
    /\ alerts' = {}
    /\ metrics' = [metrics EXCEPT !.errors =
                      SelectSeq(@, LAMBDA e : DeltaSeconds(now, e.timestamp) < HourSeconds)]
    /\ UNCHANGED <<now, historyVars, decideVars, loopVars>>

MetricsSummary ==
    /\ lastCall' = "get_metrics_summary"
    /\ result' = Returned(get_metrics_summary(metrics, now))
    /\ alerts' = {}
    /\ UNCHANGED <<metrics, now, historyVars, decideVars, loopVars>>

SystemStatus ==
    /\ lastCall' = "get_system_status"
    /\ result' = Returned(get_system_status(metrics, now))
    /\ alerts' = {}
    /\ UNCHANGED <<metrics, now, historyVars, decideVars, loopVars>>

Tick ==
    /\ \E t \in ClockPoints : t > now /\ now' = t
    /\ lastCall' = "none"
    /\ result' = Returned("None")
    /\ alerts' = {}
    /\ UNCHANGED <<metrics, historyVars, decideVars, loopVars>>

LogPredictionCall ==
    /\ Len(metrics.predictions) < MaxPredictions
    /\ \E ml \in MlLabels, b \in BedrockLabels, rt \in Latencies, f \in BOOLEAN :
          log_prediction(ml, b, rt, f)

LogErrorCall ==
    /\ Len(metrics.errors) < MaxErrors
    /\ \E ty \in ErrorTypes, f \in BOOLEAN : log_error(ty, f)

Next == LogPredictionCall \/ LogErrorCall \/ MetricsSummary \/ SystemStatus \/ Tick

Spec == Init /\ [][Next]_vars

----------------------------------------------------------------------------
(* Workloads long enough to fill the window of the last ten predictions *)

\* The two models agree or not, all requests fast.
LogPredictionAgreement ==
    /\ Len(metrics.predictions) < MaxWindowPredictions
    /\ \E b \in BedrockLabels, f \in BOOLEAN : log_prediction("good", b, 12, f)

NextAgreement == LogPredictionAgreement

SpecAgreement == Init /\ [][NextAgreement]_vars

\* The two models agree, requests fast, slow or exactly at the threshold.
LogPredictionLatency ==
    /\ Len(metrics.predictions) < MaxWindowPredictions
    /\ \E rt \in Latencies \cup {50}, f \in BOOLEAN : log_prediction("good", "good", rt, f)

NextLatency == LogPredictionLatency

SpecLatency == Init /\ [][NextLatency]_vars

\* Errors at any time, among requests that are all fine or all poor.
LogPredictionErrors ==
    /\ Len(metrics.predictions) < MaxBurstPredictions
    /\ \E p \in {<<"good", 12>>, <<"bad", 60>>} : log_prediction("good", p[1], p[2], FALSE)

NextErrors == LogPredictionErrors \/ LogErrorCall \/ Tick

SpecErrors == Init /\ [][NextErrors]_vars

\* The two models agree and are fast, or disagree and are slow; summaries are
\* asked for as the history grows past the last ten predictions.
LogPredictionLifetime ==
    /\ Len(metrics.predictions) < MaxWindowPredictions
    /\ \E p \in {<<"good", 12>>, <<"bad", 60>>} : log_prediction("good", p[1], p[2], FALSE)

NextLifetime == LogPredictionLifetime \/ MetricsSummary

SpecLifetime == Init /\ [][NextLifetime]_vars

\* _get_system_status called right after a log_prediction that returned, the
\* warnings of that log_prediction still on record.
StatusAfterPrediction ==
    /\ lastCall = "log_prediction"
    /\ ~result.raised
    /\ lastCall' = "get_system_status"
    /\ result' = Returned(get_system_status(metrics, now))
    /\ UNCHANGED <<metrics, now, alerts, historyVars, decideVars, loopVars>>

\* log_error with its file written.
LogErrorSaved ==
    /\ Len(metrics.errors) < MaxErrors
    /\ \E ty \in ErrorTypes : log_error(ty, FALSE)

NextAlertHealth == LogPredictionErrors \/ LogErrorSaved \/ Tick \/ StatusAfterPrediction

SpecAlertHealth == Init /\ [][NextAlertHealth]_vars

----------------------------------------------------------------------------
(* Summaries asked for again and again while the clock moves *)

\* get_metrics_summary, its result kept beside that of the call before it.
WatchedSummary ==
    /\ lastCall' = "get_metrics_summary"
    /\ result' = Returned(get_metrics_summary(metrics, now))
    /\ alerts' = {}
    /\ summaries' = LastN(Append(summaries, [at |-> now,
                                             value |-> get_metrics_summary(metrics, now)]), 2)
    /\ UNCHANGED <<metrics, now, errorCalls, decideVars, loopVars>>

LogPredictionRepeat ==
    /\ Len(metrics.predictions) < MaxPredictions
    /\ \E b \in MlLabels : log_prediction("good", b, 12, FALSE)

NextRepeat == LogPredictionRepeat \/ LogErrorCall \/ WatchedSummary \/ Tick

SpecRepeat == Init /\ [][NextRepeat]_vars

----------------------------------------------------------------------------
(* log_prediction called with every pair of labels *)

LogPredictionLabels ==
    /\ Len(metrics.predictions) < MaxPredictions
    /\ \E ml \in Labels, b \in Labels : log_prediction(ml, b, 12, FALSE)

NextLabels == LogPredictionLabels \/ SystemStatus

SpecLabels == Init /\ [][NextLabels]_vars

----------------------------------------------------------------------------
(* The API server: concurrent requests, their handlers run by one event loop *)

\* A server whose handlers run in threads: any handler may take its next step
\* at any time.
MayRunPreemptive(c) == c \in Clients

\* The handlers are coroutines (async def) of one event loop, and none of them
\* awaits: the loop runs a handler it has started to its end before any other.
MayRun(c) == running \in {"none", c}

InFlight(kind) == Cardinality({c \in Clients : req[c].kind = kind})

Arrive(c, r) ==
    /\ pc[c] = "idle"
    /\ req' = [req EXCEPT ![c] = r]
    /\ pc' = [pc EXCEPT ![c] = "pending"]
    /\ UNCHANGED <<monitorVars, historyVars, decideVars, running, observed>>

ArrivePredict(c) ==
    /\ Len(metrics.predictions) + InFlight("predict") < MaxPredictions
    /\ \E ml \in MlLabels, b \in BedrockLabels, rt \in Latencies :
          Arrive(c, [kind |-> "predict", ml_pred |-> ml,
                     bedrock |-> [prediction |-> b, confidence |-> 60],
                     response_time |-> rt, recommendation |-> NoRecommendation])

ArriveRead(c) ==
    \E k \in {"metrics", "health"} : Arrive(c, [NoRequest EXCEPT !.kind = k])

\* One step of a handler: from position `from` to position `to`, the metrics
\* going from metrics to m.
Step(c, kind, from, to, m) ==
    /\ req[c].kind = kind
    /\ pc[c] = from
    /\ MayRun(c)
    /\ metrics' = m
    /\ pc' = [pc EXCEPT ![c] = to]
    /\ running' = IF to = "idle" THEN "none" ELSE c
    /\ req' = IF to = "idle" THEN [req EXCEPT ![c] = NoRequest]
              ELSE IF from = "pending"
                   THEN [req EXCEPT ![c].recommendation = Decide(req[c].ml_pred, req[c].bedrock)]
                   ELSE req

\* /predict up to the call of log_prediction: the two models and the rule.
PredictBegin(c) ==
    /\ Step(c, "predict", "pending", "predictions", metrics)
    /\ UNCHANGED <<now, lastCall, result, alerts, historyVars, decideVars, observed>>

\* log_prediction, one append at a time.
PredictAppend(c) ==
    LET ml == req[c].ml_pred
        b == req[c].bedrock.prediction
        rt == req[c].response_time
    IN  /\ \/ Step(c, "predict", "predictions", "response_times",
                   [metrics EXCEPT !.predictions = Append(@, PredictionLog(ml, b, rt))])
           \/ Step(c, "predict", "response_times", "ml_predictions",
                   [metrics EXCEPT !.response_times = Append(@, rt)])
           \/ Step(c, "predict", "ml_predictions", "bedrock_predictions",
                   [metrics EXCEPT !.ml_predictions = Append(@, ml)])
           \/ Step(c, "predict", "bedrock_predictions", "agreements",
                   [metrics EXCEPT !.bedrock_predictions = Append(@, b)])
           \/ Step(c, "predict", "agreements", "save",
                   [metrics EXCEPT !.agreements = Append(@, ml = b)])
        /\ UNCHANGED <<now, lastCall, result, alerts, historyVars, decideVars, observed>>

\* The end of log_prediction and of the handler: the log is saved and the alerts
\* checked, or the save raises and the handler logs the error and answers 500.
PredictEnd(c) ==
    /\ \/ /\ Step(c, "predict", "save", "idle", metrics)
          /\ alerts' = check_alerts(metrics, now)
          /\ UNCHANGED errorCalls
       \/ /\ Step(c, "predict", "save", "idle",
                  AppendError(metrics, "PREDICTION_ERROR", now))
          /\ alerts' = {}
          /\ errorCalls' = errorCalls + 1
    /\ UNCHANGED <<now, lastCall, result, summaries, decideVars, observed>>

\* /metrics and /health: get_metrics_summary and _get_system_status.
Read(c) ==
    /\ \/ Step(c, "metrics", "pending", "idle", metrics)
       \/ Step(c, "health", "pending", "idle", metrics)
    /\ observed' = metrics
    /\ UNCHANGED <<now, lastCall, result, alerts, historyVars, decideVars>>

NextLoop ==
    \E c \in Clients :
        ArrivePredict(c) \/ ArriveRead(c) \/ PredictBegin(c) \/ PredictAppend(c)
            \/ PredictEnd(c) \/ Read(c)

SpecLoop == Init /\ [][NextLoop]_vars

----------------------------------------------------------------------------
(* The remote classifier: its call and the parsing of its answer *)

Unparsed == [prediction |-> "unknown", confidence |-> 0]

\* A parsed JSON object that has both keys is returned as it is; otherwise the
\* text is searched for "good", then for "bad".
parse_classification_response(response_text) ==
    IF response_text.json = "invalid" THEN Unparsed
    ELSE IF response_text.json = "object"
            /\ {"prediction", "confidence"} \subseteq response_text.fields
         THEN [prediction |-> response_text.prediction,
               confidence |-> response_text.confidence]
    ELSE IF response_text.good THEN [prediction |-> "good", confidence |-> 60]
    ELSE IF response_text.bad THEN [prediction |-> "bad", confidence |-> 60]
    ELSE Unparsed

\* call_fails: invoke_model or the reading of its body raises.
classify_credit_risk(call_fails, response_text) ==
    IF call_fails THEN Unparsed ELSE parse_classification_response(response_text)

ClassifyAnswered ==
    /\ \E text \in ResponseTexts :
          /\ response' = text
          /\ remote' = classify_credit_risk(FALSE, text)
    /\ UNCHANGED <<local, recommendation, monitorVars, historyVars, loopVars>>

ClassifyFailed ==
    /\ response' = NoResponse
    /\ remote' = classify_credit_risk(TRUE, NoResponse)
    /\ UNCHANGED <<local, recommendation, monitorVars, historyVars, loopVars>>

NextClassify == ClassifyAnswered \/ ClassifyFailed

SpecClassify == Init /\ [][NextClassify]_vars

----------------------------------------------------------------------------
(* The monitored API: /predict requests handled one after the other *)

\* The models failed to load when the server started: the except clause of the
\* loading sets them to None and logs the one error of type MODEL_LOADING.
LoadModelsFailed ==
    /\ metrics = EmptyMetrics
    /\ lastCall = "none"
    /\ log_error("MODEL_LOADING", FALSE)

ModelsUnavailable ==
    \E i \in 1..Len(metrics.errors) : metrics.errors[i].error_type = "MODEL_LOADING"

\* The answers of the remote model the requests meet: a JSON object with a
\* prediction and a confidence, with or without a reasoning.
ApiTexts ==
    {r \in ResponseTexts :
        /\ r.json = "object"
        /\ {"prediction", "confidence"} \subseteq r.fields
        /\ r.prediction \in {"good", "bad", "GOOD"}
        /\ r.confidence = 90
        /\ ~(r.good /\ r.bad)}

\* ml_raises: the encoding of the features or predict_proba raises.
\* call_fails: the call of the remote model fails inside classify_credit_risk.
\* save_fails: the write of predictions.jsonl raises inside log_prediction.
\* The response is built from bedrock_result['reasoning'], a key a parsed JSON
\* object may lack. Every exception ends in the except clause, which logs an
\* error of type PREDICTION_ERROR and answers 500.
predict_credit_risk(ml_pred, ml_raises, call_fails, response_text, rt, save_fails) ==
    LET bedrock_result == classify_credit_risk(call_fails, response_text)
        logged == AppendPrediction(metrics, ml_pred, bedrock_result.prediction, rt)
        no_reasoning == ~call_fails /\ "reasoning" \notin response_text.fields
    IN  /\ lastCall' = "predict_credit_risk"
        /\ summaries' = <<>>
        /\ IF ModelsUnavailable
           THEN /\ metrics' = AppendError(AppendError(metrics, "MODEL_UNAVAILABLE", now),
                                          "PREDICTION_ERROR", now)
                /\ errorCalls' = errorCalls + 2
                /\ result' = Raised
                /\ alerts' = {}
           ELSE IF ml_raises
           THEN /\ metrics' = AppendError(metrics, "PREDICTION_ERROR", now)
                /\ errorCalls' = errorCalls + 1
                /\ result' = Raised
                /\ alerts' = {}
           ELSE IF save_fails \/ no_reasoning
           THEN /\ metrics' = AppendError(logged, "PREDICTION_ERROR", now)
                /\ errorCalls' = errorCalls + 1
                /\ result' = Raised
                /\ alerts' = IF save_fails THEN {} ELSE check_alerts(logged, now)
           ELSE /\ metrics' = logged
                /\ errorCalls' = errorCalls
                /\ result' = Returned(Decide(ml_pred, bedrock_result))
                /\ alerts' = check_alerts(logged, now)
        /\ UNCHANGED <<now, decideVars, loopVars>>

PredictCall ==
    /\ Len(metrics.predictions) < MaxPredictions
    /\ Len(metrics.errors) + 2 <= MaxErrors
    /\ \E ml \in MlLabels, text \in ApiTexts, r \in BOOLEAN, c \in BOOLEAN, f \in BOOLEAN :
          predict_credit_risk(ml, r, c, text, 12, f)

NextApi == LoadModelsFailed \/ PredictCall

SpecApi == Init /\ [][NextApi]_vars

----------------------------------------------------------------------------
(* The recommendation rule applied to every pair of classification results *)

ClassificationResults == [prediction : Labels, confidence : Confidences]

Classify ==
    /\ local' \in ClassificationResults
    /\ remote' \in ClassificationResults
    /\ recommendation' = NoRecommendation
    /\ UNCHANGED <<response, monitorVars, historyVars, loopVars>>

DecideStep ==
    /\ local # NoResult
    /\ recommendation = NoRecommendation
    /\ req = [c \in Clients |-> NoRequest]
    /\ pc = [c \in Clients |-> "idle"]
    /\ running = "none"
    /\ observed = EmptyMetrics
    /\ recommendation' = Decide(local.prediction, remote)
    /\ UNCHANGED <<local, remote, response, monitorVars, historyVars, loopVars>>

NextDecide == Classify \/ DecideStep

SpecDecide == Init /\ [][NextDecide]_vars

Decided == local # NoResult /\ recommendation # NoRecommendation

\* The tag of the specification's vocabulary for each rationale of the code.
RationaleTag(r) ==
    CASE r.rationale = "Ambos modelos predicen alto riesgo" -> "both_high_risk"
      [] r.rationale = "Ambos modelos predicen bajo riesgo" -> "both_low_risk"
      [] r.rationale = "Modelos discrepan" -> "models_disagree"
      [] OTHER -> "other"

\* C1: the rule approves only when both labels are good, rejects only when both
\* are bad, and sends every other pair of labels to manual review.
C1_OnlyUnderFullAgreement ==
    Decided =>
        /\ recommendation.decision \in {"APROBAR", "RECHAZAR", "REVISAR MANUALMENTE"}
        /\ recommendation.decision = "APROBAR"
              => local.prediction = "good" /\ remote.prediction = "good"
        /\ recommendation.decision = "RECHAZAR"
              => local.prediction = "bad" /\ remote.prediction = "bad"
        /\ <<local.prediction, remote.prediction>> \notin {<<"good", "good">>, <<"bad", "bad">>}
              => recommendation.decision = "REVISAR MANUALMENTE"

C1_Witness ==
    /\ Decided
    /\ local.prediction = "good" /\ remote.prediction = "error"
    /\ recommendation.decision = "REVISAR MANUALMENTE"

\* C2: for labels that are both good or bad: good/good is approved (both low
\* risk), bad/bad is rejected (both high risk), and two different labels go to
\* manual review because the models disagree.
C2_AgreementTable ==
    (Decided /\ local.prediction \in {"good", "bad"} /\ remote.prediction \in {"good", "bad"}) =>
        /\ (local.prediction = "good" /\ remote.prediction = "good")
              => recommendation.decision = "APROBAR"
                 /\ RationaleTag(recommendation) = "both_low_risk"
        /\ (local.prediction = "bad" /\ remote.prediction = "bad")
              => recommendation.decision = "RECHAZAR"
                 /\ RationaleTag(recommendation) = "both_high_risk"
        /\ local.prediction # remote.prediction
              => recommendation.decision = "REVISAR MANUALMENTE"
                 /\ RationaleTag(recommendation) = "models_disagree"

C2_Witness ==
    /\ Decided
    /\ local.prediction = "bad" /\ remote.prediction = "bad"
    /\ recommendation.decision = "RECHAZAR"

Unavailable(r) == r.prediction \in {"unknown", "error"}

\* C3 as stated: a pair with an unknown or error label gets manual review with
\* the rationale classifier_unavailable.
C3_Original ==
    (Decided /\ (Unavailable(local) \/ Unavailable(remote))) =>
        /\ recommendation.decision = "REVISAR MANUALMENTE"
        /\ RationaleTag(recommendation) = "classifier_unavailable"

\* C3 as amended: a pair with an unknown or error label gets manual review,
\* with the same rationale as two disagreeing labels (models_disagree).
C3_UnavailableIsManualReview ==
    (Decided /\ (Unavailable(local) \/ Unavailable(remote))) =>
        /\ recommendation.decision = "REVISAR MANUALMENTE"
        /\ RationaleTag(recommendation) = "models_disagree"

C3_Witness ==
    /\ Decided
    /\ local.prediction = "good" /\ remote.prediction = "unknown"
    /\ remote.confidence = 0
    /\ recommendation = ManualReview

----------------------------------------------------------------------------
(* The monitor's parallel arrays *)

LengthsEqual(m) ==
    /\ Len(m.predictions) = Len(m.response_times)
    /\ Len(m.predictions) = Len(m.ml_predictions)
    /\ Len(m.predictions) = Len(m.bedrock_predictions)
    /\ Len(m.predictions) = Len(m.agreements)

\* C4: after any sequence of completed log_prediction, log_error and summary
\* calls, the calls of log_prediction that raise included, the five metric
\* arrays have the same length.
C4_ParallelArrays == LengthsEqual(metrics)

C4_Witness ==
    /\ lastCall = "log_prediction"
    /\ result.raised
    /\ Len(metrics.predictions) = 2
    /\ Len(metrics.agreements) = 2
    /\ Len(metrics.errors) >= 1

Consistent(m) ==
    /\ LengthsEqual(m)
    /\ \A i \in 1..Len(m.predictions) :
          /\ m.predictions[i].ml_prediction = m.ml_predictions[i]
          /\ m.predictions[i].bedrock_prediction = m.bedrock_predictions[i]
          /\ m.predictions[i].response_time = m.response_times[i]
          /\ m.predictions[i].agreement = m.agreements[i]
          /\ m.agreements[i] = (m.ml_predictions[i] = m.bedrock_predictions[i])

ReaderMayRead ==
    \E c \in Clients : req[c].kind \in {"metrics", "health"} /\ pc[c] = "pending" /\ MayRun(c)

\* C5: with several requests in flight, a reader never sees a partly appended
\* prediction: whenever the handler of /metrics or /health may read, and in what
\* it has read, the arrays have equal length and index i of each array belongs
\* to the same prediction.
C5_ReadersSeeWholeRecords ==
    /\ Consistent(observed)
    /\ ReaderMayRead => Consistent(metrics)

C5_Witness ==
    /\ Len(observed.predictions) = 1
    /\ Len(metrics.predictions) = 2
    /\ \E c \in Clients : req[c].kind = "predict" /\ pc[c] = "save"
    /\ \E c \in Clients : req[c].kind \in {"metrics", "health"} /\ pc[c] = "pending"

----------------------------------------------------------------------------
(* Health status *)

\* The errors whose timestamp lies within the last hour.
TrueRecentErrors(m, t) ==
    Cardinality({i \in 1..Len(m.errors) :
                    /\ t - m.errors[i].timestamp >= 0
                    /\ t - m.errors[i].timestamp < HourSeconds})

WindowAgreeing(m) == SumBools(LastN(m.agreements, WindowSize))
WindowLatency(m) == SumSeq(LastN(m.response_times, WindowSize))
WindowCount(m) == Len(LastN(m.predictions, WindowSize))

ExpectedHealth(m, t) ==
    IF Len(m.predictions) = 0 THEN "INICIANDO"
    ELSE IF TrueRecentErrors(m, t) > 5 THEN "CRITICO"
    ELSE IF WindowCount(m) >= 1 /\ WindowAgreeing(m) * 100 < 70 * WindowCount(m)
         THEN "ADVERTENCIA"
    ELSE IF WindowCount(m) >= 1 /\ WindowLatency(m) > 50 * WindowCount(m)
         THEN "DEGRADADO"
    ELSE "SALUDABLE"

\* C6: the health status is the first match of: Starting with no prediction,
\* Critical with more than 5 errors in the last hour, Warning with an agreement
\* rate below 70%, Degraded with a mean latency above 5.0 s, else Healthy.
C6_HealthPriority ==
    lastCall = "get_system_status" => result.value = ExpectedHealth(metrics, now)

\* C7: with at least one prediction and more than 5 errors in the last hour the
\* status is Critical, whatever the agreement rate and the latency.
C7_CriticalFirst ==
    (/\ lastCall = "get_system_status"
     /\ Len(metrics.predictions) >= 1
     /\ TrueRecentErrors(metrics, now) > 5)
        => result.value = "CRITICO"

C7_Witness ==
    /\ lastCall = "get_system_status"
    /\ Len(metrics.predictions) = 2
    /\ TrueRecentErrors(metrics, now) = 6
    /\ WindowAgreeing(metrics) = 1
    /\ WindowLatency(metrics) = 120
    /\ result.value = "CRITICO"

----------------------------------------------------------------------------
(* Alerts *)

LogPredictionReturned == lastCall = "log_prediction" /\ ~result.raised

\* C8: the low-agreement alert does not fire with fewer than 10 predictions;
\* with 10 or more it fires on a log_prediction whenever fewer than 70% of the
\* last 10 agree.
C8_LowAgreementGate ==
    LogPredictionReturned =>
        /\ Len(metrics.predictions) < 10 => "low_agreement" \notin alerts
        /\ (Len(metrics.predictions) >= 10 /\ WindowAgreeing(metrics) * 100 < 70 * 10)
              => "low_agreement" \in alerts

C8_Witness ==
    /\ LogPredictionReturned
    /\ Len(metrics.predictions) = 11
    /\ metrics.agreements[1]
    /\ WindowAgreeing(metrics) = 6
    /\ "low_agreement" \in alerts

\* C9 as stated: the high-latency alert fires as soon as the window holds one
\* prediction and its mean latency is above 5.0 s.
C9_Original ==
    (/\ LogPredictionReturned
     /\ WindowCount(metrics) >= 1
     /\ WindowLatency(metrics) > 50 * WindowCount(metrics))
        => "high_latency" \in alerts

\* C9 as amended: the high-latency alert fires on a log_prediction exactly when
\* at least 10 predictions exist and the mean latency of the last 10 is above
\* 5.0 s; with fewer than 10 predictions it does not fire.
C9_HighLatencyGated ==
    LogPredictionReturned =>
        ("high_latency" \in alerts
            <=> (Len(metrics.predictions) >= 10 /\ WindowLatency(metrics) > 50 * 10))

C9_Witness ==
    /\ LogPredictionReturned
    /\ Len(metrics.predictions) = 10
    /\ WindowLatency(metrics) = 9 * 50 + 60
    /\ "high_latency" \in alerts

\* C10 as stated: the error alert fires whenever more than 5 errors lie within
\* the last hour, however many predictions exist.
C10_Original ==
    (LogPredictionReturned /\ TrueRecentErrors(metrics, now) > 5)
        => "many_errors" \in alerts

\* C10 as amended: the error alert fires on a log_prediction whenever at least
\* 10 predictions exist and more than 5 errors lie within the last hour, whether
\* or not the other two alerts fire; with fewer than 10 predictions it does not
\* fire.
C10_ErrorSpikeGated ==
    LogPredictionReturned =>
        /\ Len(metrics.predictions) < 10 => "many_errors" \notin alerts
        /\ (Len(metrics.predictions) >= 10 /\ TrueRecentErrors(metrics, now) > 5)
              => "many_errors" \in alerts

C10_Witness ==
    /\ LogPredictionReturned
    /\ Len(metrics.predictions) = 10
    /\ TrueRecentErrors(metrics, now) = 6
    /\ now > 0
    /\ alerts = {"low_agreement", "high_latency", "many_errors"}

----------------------------------------------------------------------------
(* Failures of the log files *)

\* C11: log_prediction never fails: a failing write of the prediction log is
\* swallowed, the call returns and the prediction stays appended.
C11_LogPredictionNeverFails ==
    lastCall = "log_prediction" =>
        ~result.raised /\ Len(metrics.predictions) >= 1

\* C12: log_error never fails: a failing write of the error log is not raised
\* to the caller but recorded as an error of type RecordingFailure.
C12_LogErrorNeverFails ==
    lastCall = "log_error" =>
        /\ ~result.raised
        /\ Len(metrics.errors) >= 1

----------------------------------------------------------------------------
(* Short histories and the recency of errors *)

\* C19: with 1 to 9 predictions the health status is derived from all of them:
\* a mean latency above 5.0 s, an agreement rate of at least 70% and at most 5
\* errors within the last hour give Degraded.
C19_ShortHistoryDegraded ==
    (/\ lastCall = "get_system_status"
     /\ Len(metrics.predictions) \in 1..(WindowSize - 1)
     /\ SumSeq(metrics.response_times) > 50 * Len(metrics.response_times)
     /\ SumBools(metrics.agreements) * 100 >= 70 * Len(metrics.agreements)
     /\ TrueRecentErrors(metrics, now) <= 5)
        => result.value = "DEGRADADO"

\* C20: the count of recent errors behind the Critical status is exactly the
\* number of errors whose timestamp lies within the last 3600 seconds: the
\* status is Critical exactly when more than 5 such errors exist, and an error
\* older than that, a day old or more included, is never counted.
C20_RecentErrorsWithinHour ==
    (lastCall = "get_system_status" /\ Len(metrics.predictions) >= 1)
        => (result.value = "CRITICO" <=> TrueRecentErrors(metrics, now) > 5)

----------------------------------------------------------------------------
(* The queries *)

\* C14: the summary and the health query are read-only: a call of
\* get_metrics_summary or _get_system_status leaves the six lists of the
\* metrics as they were.
C14_QueriesReadOnly ==
    [][lastCall' \in {"get_metrics_summary", "get_system_status"}
          => metrics' = metrics]_vars

C14_Witness ==
    /\ lastCall = "get_metrics_summary"
    /\ now > HourSeconds
    /\ Len(metrics.predictions) = 2
    /\ Len(metrics.errors) = 6
    /\ metrics.errors[1].timestamp = 0
    /\ result.value.total_errors = 6

IsPrefix(s, t) == Len(s) <= Len(t) /\ SubSeq(t, 1, Len(s)) = s

\* C18: the error records are append-only: every operation leaves the errors
\* already recorded unchanged and in place, as many errors are held as log_error
\* was called, and the total_errors of a summary is that number.
C18_ErrorsAppendOnly ==
    /\ [][IsPrefix(metrics.errors, metrics'.errors)]_vars
    /\ [](Len(metrics.errors) = errorCalls)
    /\ []((lastCall = "get_metrics_summary" /\ metrics.predictions # <<>>)
             => result.value.total_errors = errorCalls)

C18_Witness ==
    /\ lastCall = "get_metrics_summary"
    /\ errorCalls = 6
    /\ metrics.predictions # <<>>
    /\ result.value.total_errors = 6
    /\ metrics.errors[1].timestamp < metrics.errors[6].timestamp

SummaryFields ==
    {"total_predictions", "agreement_rate", "avg_response_time", "ml_distribution",
     "bedrock_distribution", "total_errors", "recent_predictions", "status"}

\* C15 as stated: after any log_prediction and log_error calls the summary
\* carries the lifetime counts, the recent predictions, the set of active alerts
\* and the status, the status being the one derived at the time of the call.
C15_Original ==
    lastCall = "get_metrics_summary" =>
        /\ {"total_predictions", "total_errors", "recent_predictions", "alerts", "status"}
              \subseteq DOMAIN result.value
        /\ result.value.status = get_system_status(metrics, now)

\* C15 as amended: with no prediction the summary is a message only; with one
\* or more it carries the lifetime counts, the last ten predictions and the
\* status derived from the metrics and the clock at the time of the call, and no
\* set of alerts.
C15_SummaryFresh ==
    lastCall = "get_metrics_summary" =>
        IF metrics.predictions = <<>>
        THEN DOMAIN result.value = {"message"}
        ELSE /\ DOMAIN result.value = SummaryFields
             /\ result.value.total_predictions = Len(metrics.predictions)
             /\ result.value.total_errors = Len(metrics.errors)
             /\ result.value.ml_distribution.good + result.value.ml_distribution.bad
                   = Len(metrics.ml_predictions)
             /\ result.value.bedrock_distribution.good
                   = Count(metrics.bedrock_predictions, "good")
             /\ result.value.bedrock_distribution.bad
                   = Count(metrics.bedrock_predictions, "bad")
             /\ result.value.recent_predictions = LastN(metrics.predictions, WindowSize)
             /\ result.value.status = get_system_status(metrics, now)

C15_Witness ==
    /\ lastCall = "get_metrics_summary"
    /\ now = HourSeconds
    /\ Len(metrics.predictions) = 2
    /\ Len(metrics.errors) = 6
    /\ \A i \in 1..6 : metrics.errors[i].timestamp = 0
    /\ get_system_status(metrics, 0) = "CRITICO"
    /\ result.value.status = "ADVERTENCIA"

WithoutStatus(s) == IF "status" \in DOMAIN s THEN [s EXCEPT !.status = "any"] ELSE s

\* C13 as stated: two calls of get_metrics_summary with no log_prediction or
\* log_error between them return identical results.
C13_Original ==
    Len(summaries) = 2 => summaries[1].value = summaries[2].value

\* C13 as amended: two calls of get_metrics_summary with no log_prediction or
\* log_error between them return results identical in every field other than
\* the status, and identical in the status too when as many errors count as
\* recent at the second call as at the first.
C13_SummaryRepeatable ==
    Len(summaries) = 2 =>
        /\ WithoutStatus(summaries[1].value) = WithoutStatus(summaries[2].value)
        /\ RecentErrors(metrics, summaries[1].at) = RecentErrors(metrics, summaries[2].at)
              => summaries[1].value = summaries[2].value

C13_Witness ==
    /\ Len(summaries) = 2
    /\ summaries[1].at = 0
    /\ summaries[2].at = HourSeconds
    /\ errorCalls = 6
    /\ Len(metrics.predictions) = 2
    /\ summaries[1].value.status = "CRITICO"
    /\ summaries[2].value.status = "SALUDABLE"
    /\ summaries[1].value.total_errors = summaries[2].value.total_errors

----------------------------------------------------------------------------
(* The rates of the summary *)

SummaryOfPredictions == lastCall = "get_metrics_summary" /\ metrics.predictions # <<>>

\* The fraction <<n, d>> is the fraction n2 / d2.
SameFraction(f, n2, d2) == f[2] > 0 /\ d2 > 0 /\ f[1] * d2 = n2 * f[2]

\* C16 as stated: the agreement rate and the mean latency of the summary cover
\* the last 10 predictions only; older predictions have no influence on them.
C16_Original ==
    SummaryOfPredictions =>
        /\ SameFraction(result.value.agreement_rate,
                        WindowAgreeing(metrics) * 100, WindowCount(metrics))
        /\ SameFraction(result.value.avg_response_time,
                        WindowLatency(metrics), WindowCount(metrics))

\* C16 as amended: the agreement rate and the mean latency of the summary cover
\* every prediction logged since the monitor was built; only the list of recent
\* predictions is cut to the last 10.
C16_LifetimeRates ==
    SummaryOfPredictions =>
        /\ SameFraction(result.value.agreement_rate,
                        SumBools(metrics.agreements) * 100, Len(metrics.predictions))
        /\ SameFraction(result.value.avg_response_time,
                        SumSeq(metrics.response_times), Len(metrics.predictions))
        /\ result.value.recent_predictions = LastN(metrics.predictions, WindowSize)
        /\ Len(result.value.recent_predictions) <= WindowSize

C16_Witness ==
    /\ SummaryOfPredictions
    /\ Len(metrics.predictions) = 11
    /\ ~metrics.agreements[1]
    /\ WindowAgreeing(metrics) = 10
    /\ result.value.agreement_rate = <<1000, 11>>
    /\ result.value.avg_response_time = <<60 + 10 * 12, 11>>
    /\ Len(result.value.recent_predictions) = 10

----------------------------------------------------------------------------
(* Agreement of labels that are no verdict *)

Verdicts == {"good", "bad"}

----------------------------------------------------------------------------
(* Alerts against the status *)

\* C24: alerts and status agree: when a log_prediction raised the low-agreement
\* alert, a status query made right after it, with no other call and no time
\* between, returns Critical or Warning; when it raised the alert of many recent
\* errors, the query returns Critical.
C24_AlertsAgreeWithStatus ==
    lastCall = "get_system_status" =>
        /\ "low_agreement" \in alerts => result.value \in {"CRITICO", "ADVERTENCIA"}
        /\ "many_errors" \in alerts => result.value = "CRITICO"

C24_Witness ==
    /\ lastCall = "get_system_status"
    /\ Len(metrics.predictions) = 10
    /\ alerts = {"low_agreement", "high_latency"}
    /\ Len(metrics.errors) = 5
    /\ result.value = "ADVERTENCIA"

----------------------------------------------------------------------------
(* The labels that leave the remote classifier *)

Classified == remote # NoResult

\* C21: whatever the remote model answers and however its call fails,
\* classify_credit_risk returns a result whose label is one of good, bad,
\* unknown and error: no other label, such as one in another case or a free
\* text taken from the JSON of the answer, leaves the classifier.
C21_ClosedLabels ==
    Classified => remote.prediction \in Labels

TextFallback ==
    /\ response.json \in {"absent", "object"}
    /\ ~({"prediction", "confidence"} \subseteq response.fields)

\* C22: when no JSON object with a prediction and a confidence is parsed and the
\* label is taken from the text, a text that holds both "good" and "bad" does
\* not give the label good.
C22_AmbiguousNotGood ==
    (Classified /\ TextFallback /\ response.good /\ response.bad)
        => remote.prediction # "good"

----------------------------------------------------------------------------
(* The monitored outcome of a request *)

\* C23: every /predict request has exactly one monitored outcome: a request
\* that succeeds appends one prediction and no error, and a request answered
\* with 500 appends one error and no prediction.
C23_OneOutcomePerRequest ==
    [][lastCall' = "predict_credit_risk" =>
          IF result'.raised
          THEN /\ Len(metrics'.errors) = Len(metrics.errors) + 1
               /\ metrics'.predictions = metrics.predictions
          ELSE /\ Len(metrics'.predictions) = Len(metrics.predictions) + 1
               /\ metrics'.errors = metrics.errors]_vars

====
